---- MODULE Spec2Model ----
(***************************************************************************)
(* A model of the Pauli group / Pauli tensor / Pauli algebra library       *)
(* (pauli_group.py, pauli_algebra.py).                                     *)
(*                                                                         *)
(* The library is a set of pure operations on immutable values, so the     *)
(* state machine is a caller: from the idle state it performs one call     *)
(* with operands drawn from bounded sets, the state then holds the call    *)
(* (op, args) and what it produced (res: a value, or the exception that    *)
(* was raised), and Return leads back to the idle state.                   *)
(*                                                                         *)
(* Numbers.  A Python number is modelled as a pair <<re, im>> of integers  *)
(* (a Gaussian integer): int, float and complex operands that compare      *)
(* equal in Python (1 == 1.0 == 1+0j) hash alike and are one value here.   *)
(* Sums and products of small Gaussian integers are exact in binary64, so  *)
(* they are modelled by exact integer arithmetic.  The one place where     *)
(* the code divides by an arbitrary number is simplify(), and there the    *)
(* binary64 rounding is modelled (FloatRecip, FloatMul).                   *)
(***************************************************************************)
EXTENDS Integers, Sequences, FiniteSets, TLC

VARIABLES op, args, res

vars == <<op, args, res>>

(***************************************************************************)
(* Bounds of the model.                                                    *)
(***************************************************************************)
\* Largest number of factors of a tensor operand in the tensor layer.
MaxDim == 3
\* Largest number of terms of an algebra-element operand.
MaxTerms == 2

(***************************************************************************)
(* Complex numbers                                                         *)
(***************************************************************************)
Cmul(a, b) == <<a[1] * b[1] - a[2] * b[2], a[1] * b[2] + a[2] * b[1]>>

Cadd(a, b) == <<a[1] + b[1], a[2] + b[2]>>

One == <<1, 0>>
MinusOne == <<-1, 0>>
Imag == <<0, 1>>
MinusImag == <<0, -1>>
Zero == <<0, 0>>
Two == <<2, 0>>

\* The tuple (1, -1, 1j, -1j) of __post_init__.
FourthRoots == {One, MinusOne, Imag, MinusImag}

(***************************************************************************)
(* TLC evaluates a LET definition and an operator argument anew at each    *)
(* use.  Bind(e, F) is F(e) with e evaluated once.                         *)
(***************************************************************************)
Bind(e, F(_)) == CHOOSE r \in {F(v) : v \in {e}} : TRUE

(***************************************************************************)
(* Exceptions: a raised exception is the value [error |-> kind].           *)
(***************************************************************************)
Raise(kind) == [error |-> kind]

IsError(v) == "error" \in DOMAIN v

\* ValueError("Phase must be a fourth root of unity.")
InvalidPhaseError == Raise("ValueError: Phase must be a fourth root of unity.")
\* ValueError("Tensors must have the same number of factors.")
DimensionMismatchError == Raise("ValueError: Tensors must have the same number of factors.")
\* 1 / 0
ZeroDivisionError == Raise("ZeroDivisionError")

(***************************************************************************)
(* Group layer (pauli_group.py)                                            *)
(***************************************************************************)
SIGMA == {"I", "X", "Y", "Z"}

SIGMA_LIST == <<"I", "X", "Y", "Z">>

\* SIGMA_LIST.index(sigma), 0-based as in Python.
SigmaIndex(sigma) == (CHOOSE i \in 1..4 : SIGMA_LIST[i] = sigma) - 1

\* A mutant of sign: the permutation's parity is ignored.
sign_NoParity(permutation) == 1

\* sign(permutation): (-1) ** (number of inversions).
sign(permutation) ==
    LET inversions ==
            Cardinality({pr \in (1..Len(permutation)) \X (1..Len(permutation)) :
                            pr[1] < pr[2] /\ permutation[pr[1]] > permutation[pr[2]]})
    IN  IF inversions % 2 = 0 THEN 1 ELSE -1

\* One entry of create_times_table(): <<phase, sigma_idx>> for (idx1, idx2).
TimesTableEntry(idx1, idx2) ==
    IF idx1 = 0 \/ idx2 = 0 THEN <<One, idx1 + idx2>>
    ELSE IF idx1 = idx2 THEN <<One, 0>>
    ELSE LET idx3 == 6 - idx1 - idx2
         IN  <<Cmul(Imag, <<sign(<<idx1, idx2, idx3>>), 0>>), idx3>>

TIMES_TABLE == [idx \in (0..3) \X (0..3) |-> TimesTableEntry(idx[1], idx[2])]

\* A mutant of the constructor: __post_init__ does not validate the phase.
PauliGroupElement_NoCheck(phase, sigma) == [phase |-> phase, sigma |-> sigma]

\* PauliGroupElement(phase, sigma): the dataclass constructor and __post_init__.
PauliGroupElement(phase, sigma) ==
    IF phase \notin FourthRoots THEN InvalidPhaseError
    ELSE [phase |-> phase, sigma |-> sigma]

\* PauliGroupElement.__mul__(self, other), other a Complex.
GroupMulScalar(self, other) == PauliGroupElement(Cmul(self.phase, other), self.sigma)

\* PauliGroupElement.__mul__(self, other), other a PauliGroupElement.
GroupMul(self, other) ==
    LET combined_phase == Cmul(self.phase, other.phase)
        entry == TIMES_TABLE[<<SigmaIndex(self.sigma), SigmaIndex(other.sigma)>>]
    IN  PauliGroupElement(Cmul(combined_phase, entry[1]), SIGMA_LIST[entry[2] + 1])

\* PauliGroupElement.__rmul__(self, other): other * self, other a Complex.
GroupRmul(self, other) == GroupMulScalar(self, other)

\* PauliGroupElement.__neg__
GroupNeg(self) == GroupRmul(self, MinusOne)

\* The classmethods I(), X(), Y(), Z().
Base(sigma) == PauliGroupElement(One, sigma)

\* Every group element that can be constructed.
GroupElements == {[phase |-> p, sigma |-> s] : p \in FourthRoots, s \in SIGMA}

\* Scalars handed to the group layer's scalar multiplication and constructor.
GroupScalars == FourthRoots \cup {Zero, Two, <<1, 1>>, <<0, 2>>, <<-2, 0>>}

(***************************************************************************)
(* Tensor layer (pauli_algebra.py, PauliTensor)                            *)
(***************************************************************************)
\* PauliTensor(phase, tensor): the dataclass constructor (no validation).
PauliTensor(phase, tensor) == [phase |-> phase, tensor |-> tensor]

\* PauliTensor.dim
dim(self) == Len(self.tensor)

\* math.prod(factor.phase for factor in tensor[1..n])
RECURSIVE PhaseProduct(_, _)
PhaseProduct(tensor, n) ==
    IF n = 0 THEN One ELSE Cmul(PhaseProduct(tensor, n - 1), tensor[n].phase)

\* PauliTensor.overall_phase
overall_phase(self) == Cmul(self.phase, PhaseProduct(self.tensor, Len(self.tensor)))

\* 1 / phase for a fourth root of unity: its conjugate, exactly (no rounding).
UnitRecip(phase) == <<phase[1], -phase[2]>>

\* A mutant of factor_phase: the factors keep their phases.
factor_phase_KeepFactors(self) == PauliTensor(overall_phase(self), self.tensor)

\* PauliTensor.factor_phase
factor_phase(self) ==
    LET phaseless == [i \in 1..Len(self.tensor) |->
                        GroupMulScalar(self.tensor[i], UnitRecip(self.tensor[i].phase))]
    IN  PauliTensor(overall_phase(self), phaseless)

\* PauliTensor.__eq__(self, other), other a PauliTensor.
TensorEq(self, other) ==
    LET s_factored == factor_phase(self)
        o_factored == factor_phase(other)
    IN  s_factored.phase = o_factored.phase /\ s_factored.tensor = o_factored.tensor

\* PauliTensor.__mul__(self, other), other a Complex.
TensorMulScalar(self, other) == PauliTensor(Cmul(self.phase, other), self.tensor)

\* PauliTensor.__rmul__(self, other): other * self, other a Complex.
TensorRmul(self, other) == PauliTensor(Cmul(self.phase, other), self.tensor)

\* A mutant of TensorMul: the product is returned without factor_phase().
TensorMul_Unfactored(self, other) ==
    IF dim(self) # dim(other) THEN DimensionMismatchError
    ELSE LET s_simple == factor_phase(self)
             o_simple == factor_phase(other)
             phase == Cmul(s_simple.phase, o_simple.phase)
             tensor == PauliTensor(One, [i \in 1..dim(self) |->
                                          GroupMul(s_simple.tensor[i], o_simple.tensor[i])])
         IN  TensorRmul(tensor, phase)

\* A mutant of TensorMul: the dimension check is missing and zip() truncates.
TensorMul_NoDimCheck(self, other) ==
    LET s_simple == factor_phase(self)
        o_simple == factor_phase(other)
        phase == Cmul(s_simple.phase, o_simple.phase)
        n == IF dim(self) < dim(other) THEN dim(self) ELSE dim(other)
        tensor == PauliTensor(One, [i \in 1..n |->
                                      GroupMul(s_simple.tensor[i], o_simple.tensor[i])])
    IN  Bind(tensor, LAMBDA t : TensorRmul(factor_phase(t), phase))

\* PauliTensor.__mul__(self, other), other a PauliTensor.
TensorMul(self, other) ==
    IF dim(self) # dim(other) THEN DimensionMismatchError
    ELSE LET s_simple == factor_phase(self)
             o_simple == factor_phase(other)
             phase == Cmul(s_simple.phase, o_simple.phase)
             tensor == PauliTensor(One, [i \in 1..dim(self) |->
                                          GroupMul(s_simple.tensor[i], o_simple.tensor[i])])
         IN  Bind(tensor, LAMBDA t : TensorRmul(factor_phase(t), phase))

\* PauliTensor.__neg__
TensorNeg(self) == TensorRmul(self, MinusOne)

\* PauliTensor.from_str(string); the string is a sequence of labels.
from_str(string) ==
    PauliTensor(One, [i \in 1..Len(string) |-> PauliGroupElement(One, string[i])])

\* Operands of the tensor layer.
Dims == 1..MaxDim

LabelStrings(n) == [1..n -> SIGMA]

\* Tensor-level phases of the operands: units, a non-unit and zero.
TensorPhases == {One, Imag, Two, Zero}

\* Operands of dim n of the one-tensor operations: every phase on every factor.
Tensors(n) == {PauliTensor(p, f) : p \in TensorPhases, f \in [1..n -> GroupElements]}

\* Left operands of dim n of tensor * tensor: a phase on the tensor and on any factor.
PairFactors == {[phase |-> p, sigma |-> s] : p \in {One, Imag}, s \in SIGMA}

PairTensors(n) == {PauliTensor(p, f) : p \in {One, Two}, f \in [1..n -> PairFactors]}

\* Right operands of dim n of tensor * tensor: a phase on the tensor, and one phase on
\* all the factors.
PartnerTensors(n) ==
    {PauliTensor(p, [i \in 1..n |-> [phase |-> q, sigma |-> s[i]]]) :
        p \in {One, Imag}, q \in {One, MinusImag}, s \in LabelStrings(n)}

(***************************************************************************)
(* binary64 arithmetic of simplify()'s  phase * (1 / phase)                *)
(***************************************************************************)
\* n.bit_length()
RECURSIVE BitLength(_)
BitLength(n) == IF n = 0 THEN 0 ELSE 1 + BitLength(n \div 2)

\* 2 ** e
RECURSIVE Pow2(_)
Pow2(e) == IF e = 0 THEN 1 ELSE 2 * Pow2(e - 1)

\* (2 ** e) % n
RECURSIVE Pow2Mod(_, _)
Pow2Mod(e, n) == IF e = 0 THEN 1 % n ELSE (2 * Pow2Mod(e - 1, n)) % n

\* x / unit rounded to the nearest integer, ties to the even one.
RoundHalfEven(x, unit) ==
    LET q == x \div unit
        r == x % unit
    IN  IF 2 * r < unit THEN q
        ELSE IF 2 * r > unit THEN q + 1
        ELSE IF q % 2 = 0 THEN q ELSE q + 1

\* 1 / n for an integer n >= 1, rounded to binary64 (53 significant bits,
\* round to nearest).  With k = n.bit_length(), 1/n lies in [2^-k, 2^-(k-1)], so
\* the result is M * 2^-(52+k) with M the integer nearest to 2^(52+k) / n.  The
\* record gives exp = 52 + k and delta = n * M - 2^exp, the exact error of
\* n * (1/n) in units of 2^-exp (M itself has 53 bits and is never written out).
FloatRecip(n) ==
    LET exp == 52 + BitLength(n)
        rem == Pow2Mod(exp, n)
    IN  [exp |-> exp, delta |-> IF 2 * rem > n THEN n - rem ELSE -rem]

\* n * recip rounded to binary64, for recip == FloatRecip(n): the exact product is
\* 1 + delta * 2^-exp.  Just above 1 the doubles are 2^-52 apart, just below 1
\* they are 2^-53 apart.  The result is written in units of 2^-53 away from 1.
FloatMul(n, recip) ==
    IF recip.delta >= 0
    THEN 2 * RoundHalfEven(recip.delta, Pow2(recip.exp - 52))
    ELSE -RoundHalfEven(-recip.delta, Pow2(recip.exp - 53))

\* The double 1 + d * 2^-53: the number 1 when d = 0 and, for d = -1, the double
\* 0.9999999999999999, which is no Gaussian integer and is written <<1, 0, d>>.
NearOne(d) == IF d = 0 THEN One ELSE <<1, 0, d>>

\* phase * (1 / phase) as simplify() computes it, for a phase on the real or
\* the imaginary axis (every phase of the model is: the operands' phases are,
\* and products of such are).  Python's complex division and product of
\* n, -n, nj, -nj reduce to the real operations 1 / n and n * (1 / n), the signs
\* cancelling exactly; 1 / 0 raises.
PhaseTimesReciprocal(phase) ==
    CASE phase = Zero -> ZeroDivisionError
      [] phase # Zero /\ phase[2] = 0 ->
            LET n == IF phase[1] < 0 THEN -phase[1] ELSE phase[1]
            IN  NearOne(FloatMul(n, FloatRecip(n)))
      [] phase # Zero /\ phase[1] = 0 ->
            LET n == IF phase[2] < 0 THEN -phase[2] ELSE phase[2]
            IN  NearOne(FloatMul(n, FloatRecip(n)))

(***************************************************************************)
(* Algebra layer (pauli_algebra.py, PauliAlgebraElement)                   *)
(*                                                                         *)
(* coeffs is a Python dict keyed by PauliTensor.  A dict holds two keys    *)
(* as one entry when their hashes are equal and __eq__ says they are       *)
(* equal.  PauliTensor is a frozen dataclass that defines __eq__ itself,   *)
(* so the dataclass generates __hash__ from the fields (phase, tensor):    *)
(* keys with different fields are different entries, whatever __eq__       *)
(* says, and keys with the same fields are equal under __eq__ too.  The    *)
(* dict is therefore a function whose domain is a set of tensor records.   *)
(***************************************************************************)
\* The generated __hash__: the hash of the tuple of the fields.
TensorHash(self) == <<self.phase, self.tensor>>

\* Whether a dict holds key1 and key2 as one entry.
SameKey(key1, key2) == TensorHash(key1) = TensorHash(key2) /\ TensorEq(key1, key2)

\* PauliAlgebraElement(coeffs)
PauliAlgebraElement(coeffs) == [coeffs |-> coeffs]

\* The sum of the complex numbers f[x], x in S.
RECURSIVE ComplexSum(_, _)
ComplexSum(f, S) ==
    IF S = {} THEN Zero
    ELSE LET x == CHOOSE x \in S : TRUE
         IN  Cadd(f[x], ComplexSum(f, S \ {x}))

\* PauliAlgebraElement.from_str(string)
AlgFromStr(string) == PauliAlgebraElement([t \in {from_str(string)} |-> One])

\* The key simplify() files a tensor under: factored_tensor * (1 / factored_phase).
SimplifyKey(tensor) ==
    LET factored_tensor == factor_phase(tensor)
    IN  PauliTensor(PhaseTimesReciprocal(factored_tensor.phase), factored_tensor.tensor)

\* The dict simplify() builds; keys[t] is the key it files t's term under.
SimplifiedCoeffs(self, keys) ==
    [key \in {keys[t] : t \in DOMAIN self.coeffs} |->
        ComplexSum([t \in DOMAIN self.coeffs |->
                       Cmul(self.coeffs[t], factor_phase(t).phase)],
                   {t \in DOMAIN self.coeffs : SameKey(keys[t], key)})]

\* PauliAlgebraElement.simplify
simplify(self) ==
    IF \E t \in DOMAIN self.coeffs : factor_phase(t).phase = Zero THEN ZeroDivisionError
    ELSE Bind([t \in DOMAIN self.coeffs |-> SimplifyKey(t)],
              LAMBDA keys : PauliAlgebraElement(SimplifiedCoeffs(self, keys)))

\* PauliAlgebraElement.__eq__(self, other), other a PauliAlgebraElement:
\* [value |-> a Boolean], or the exception simplify() raised.
AlgEq(self, other) ==
    LET s == simplify(self)
        o == simplify(other)
    IN  IF IsError(s) THEN s
        ELSE IF IsError(o) THEN o
        ELSE [value |-> s.coeffs = o.coeffs]

\* PauliAlgebraElement.__add__(self, other)
AlgAdd(self, other) ==
    LET coeffOf(e, t) == IF t \in DOMAIN e.coeffs THEN e.coeffs[t] ELSE Zero
    IN  PauliAlgebraElement(
          [t \in DOMAIN self.coeffs \cup DOMAIN other.coeffs |->
              Cadd(coeffOf(self, t), coeffOf(other, t))])

\* PauliAlgebraElement.__mul__(self, other), other a Complex.
AlgMulScalar(self, other) ==
    PauliAlgebraElement([t \in DOMAIN self.coeffs |-> Cmul(other, self.coeffs[t])])

\* The dict __mul__ builds; products[<<t1, t2>>] is t1 * t2.
ProductCoeffs(self, other, products) ==
    [key \in {products[pr] : pr \in DOMAIN products} |->
        ComplexSum([pr \in DOMAIN products |-> Cmul(self.coeffs[pr[1]], other.coeffs[pr[2]])],
                   {pr \in DOMAIN products : SameKey(products[pr], key)})]

\* PauliAlgebraElement.__mul__(self, other), other a PauliAlgebraElement.
AlgMul(self, other) ==
    Bind([pr \in (DOMAIN self.coeffs) \X (DOMAIN other.coeffs) |-> TensorMul(pr[1], pr[2])],
         LAMBDA products :
            IF \E pr \in DOMAIN products : IsError(products[pr]) THEN DimensionMismatchError
            ELSE PauliAlgebraElement(ProductCoeffs(self, other, products)))

\* PauliAlgebraElement.__mul__(self, other), other a PauliTensor.
AlgMulTensor(self, other) == AlgMul(self, PauliAlgebraElement([t \in {other} |-> One]))

\* PauliAlgebraElement.__rmul__(self, other), other a Complex: other * self.
AlgRmulScalar(self, other) == AlgMulScalar(self, other)

\* PauliAlgebraElement.__rmul__(self, other), other a PauliTensor: other * self
\* (PauliTensor.__mul__ returns NotImplemented for an algebra element, so
\* Python calls the reflected method).
AlgRmulTensor(self, other) == AlgMulTensor(self, other)

\* PauliAlgebraElement.__neg__
AlgNeg(self) == AlgRmulScalar(self, MinusOne)

\* Key tensors of the algebra-element operands.
III == from_str(<<"I", "I", "I">>)
XXX == from_str(<<"X", "X", "X">>)
ZII == from_str(<<"Z", "I", "I">>)
XX == from_str(<<"X", "X">>)

AlgTensors ==
    { III, XXX, ZII, XX,
      TensorRmul(III, Imag), TensorRmul(XXX, Imag), TensorRmul(XXX, Two),
      TensorRmul(XXX, Zero), TensorRmul(XXX, <<49, 0>>),
      PauliTensor(One, <<GroupRmul(Base("X"), Imag), Base("X"), Base("X")>>) }

\* Coefficients of the algebra-element operands.
AlgCoeffs == {One, Two}

\* The operands: every dict of at most terms entries.
AlgElements(terms) ==
    UNION {{PauliAlgebraElement(f) : f \in [keys -> AlgCoeffs]} :
             keys \in {ks \in SUBSET AlgTensors : Cardinality(ks) <= terms}}

\* Scalars of the algebra layer's scalar multiplication.
AlgScalars == {One, Two, Imag, MinusOne, Zero}

(***************************************************************************)
(* The caller                                                              *)
(***************************************************************************)
Idle == op = "idle"

Init ==
    /\ op = "idle"
    /\ args = <<>>
    /\ res = [idle |-> TRUE]

\* The caller drops the result and is ready for the next call.
Return ==
    /\ ~Idle
    /\ op' = "idle"
    /\ args' = <<>>
    /\ res' = [idle |-> TRUE]

\* PauliGroupElement(phase, sigma)
CallGroupNew ==
    /\ Idle
    /\ \E p \in GroupScalars, s \in SIGMA :
        /\ op' = "PauliGroupElement"
        /\ args' = <<p, s>>
        /\ res' = PauliGroupElement(p, s)

\* a * b
CallGroupMul ==
    /\ Idle
    /\ \E a \in GroupElements, b \in GroupElements :
        /\ op' = "PauliGroupElement.__mul__"
        /\ args' = <<a, b>>
        /\ res' = GroupMul(a, b)

\* a * s
CallGroupMulScalar ==
    /\ Idle
    /\ \E a \in GroupElements, s \in GroupScalars :
        /\ op' = "PauliGroupElement.__mul__(scalar)"
        /\ args' = <<a, s>>
        /\ res' = GroupMulScalar(a, s)

\* s * a
CallGroupRmul ==
    /\ Idle
    /\ \E a \in GroupElements, s \in GroupScalars :
        /\ op' = "PauliGroupElement.__rmul__"
        /\ args' = <<a, s>>
        /\ res' = GroupRmul(a, s)

\* -a
CallGroupNeg ==
    /\ Idle
    /\ \E a \in GroupElements :
        /\ op' = "PauliGroupElement.__neg__"
        /\ args' = <<a>>
        /\ res' = GroupNeg(a)

NextGroup ==
    \/ CallGroupNew
    \/ CallGroupMul
    \/ CallGroupMulScalar
    \/ CallGroupRmul
    \/ CallGroupNeg
    \/ Return

SpecGroup == Init /\ [][NextGroup]_vars

\* t.overall_phase
CallOverallPhase ==
    /\ Idle
    /\ \E n \in Dims : \E t \in Tensors(n) :
        /\ op' = "PauliTensor.overall_phase"
        /\ args' = <<t>>
        /\ res' = [value |-> overall_phase(t)]

\* t.factor_phase()
CallFactorPhase ==
    /\ Idle
    /\ \E n \in Dims : \E t \in Tensors(n) :
        /\ op' = "PauliTensor.factor_phase"
        /\ args' = <<t>>
        /\ res' = factor_phase(t)

\* PauliTensor.from_str(s)
CallFromStr ==
    /\ Idle
    /\ \E n \in Dims : \E s \in LabelStrings(n) :
        /\ op' = "PauliTensor.from_str"
        /\ args' = <<s>>
        /\ res' = from_str(s)

\* t * s and s * t
CallTensorMulScalar ==
    /\ Idle
    /\ \E n \in Dims : \E t \in PairTensors(n), s \in GroupScalars :
        /\ op' = "PauliTensor.__mul__(scalar)"
        /\ args' = <<t, s>>
        /\ res' = TensorMulScalar(t, s)

\* a * b
CallTensorMul ==
    /\ Idle
    /\ \E n \in Dims, m \in Dims : \E a \in PairTensors(n), b \in PartnerTensors(m) :
        /\ op' = "PauliTensor.__mul__"
        /\ args' = <<a, b>>
        /\ res' = TensorMul(a, b)

\* The operations on one tensor.
NextTensorValue ==
    \/ CallOverallPhase
    \/ CallFactorPhase
    \/ CallFromStr
    \/ CallTensorMulScalar
    \/ Return

SpecTensorValue == Init /\ [][NextTensorValue]_vars

NextTensor ==
    \/ NextTensorValue
    \/ CallTensorMul

SpecTensor == Init /\ [][NextTensor]_vars

\* a * b for two key tensors of the algebra layer, of equal or different dim
CallTensorMulKeys ==
    /\ Idle
    /\ \E a \in AlgTensors, b \in AlgTensors :
        /\ op' = "PauliTensor.__mul__"
        /\ args' = <<a, b>>
        /\ res' = TensorMul(a, b)

\* A.simplify()
CallSimplify ==
    /\ Idle
    /\ \E A \in AlgElements(MaxTerms) :
        /\ op' = "PauliAlgebraElement.simplify"
        /\ args' = <<A>>
        /\ res' = simplify(A)

\* A == B
CallAlgEq ==
    /\ Idle
    /\ \E A \in AlgElements(MaxTerms), B \in AlgElements(MaxTerms) :
        /\ op' = "PauliAlgebraElement.__eq__"
        /\ args' = <<A, B>>
        /\ res' = AlgEq(A, B)

\* A + B
CallAlgAdd ==
    /\ Idle
    /\ \E A \in AlgElements(MaxTerms), B \in AlgElements(MaxTerms) :
        /\ op' = "PauliAlgebraElement.__add__"
        /\ args' = <<A, B>>
        /\ res' = AlgAdd(A, B)

\* A * s and s * A
CallAlgMulScalar ==
    /\ Idle
    /\ \E A \in AlgElements(MaxTerms), s \in AlgScalars :
        /\ op' = "PauliAlgebraElement.__mul__(scalar)"
        /\ args' = <<A, s>>
        /\ res' = AlgMulScalar(A, s)

\* A * B
CallAlgMul ==
    /\ Idle
    /\ \E A \in AlgElements(MaxTerms), B \in AlgElements(MaxTerms) :
        /\ op' = "PauliAlgebraElement.__mul__"
        /\ args' = <<A, B>>
        /\ res' = AlgMul(A, B)

\* A * t
CallAlgMulTensor ==
    /\ Idle
    /\ \E A \in AlgElements(MaxTerms), t \in AlgTensors :
        /\ op' = "PauliAlgebraElement.__mul__(tensor)"
        /\ args' = <<A, t>>
        /\ res' = AlgMulTensor(A, t)

\* t * A
CallAlgRmulTensor ==
    /\ Idle
    /\ \E A \in AlgElements(MaxTerms), t \in AlgTensors :
        /\ op' = "PauliAlgebraElement.__rmul__(tensor)"
        /\ args' = <<A, t>>
        /\ res' = AlgRmulTensor(A, t)

NextAlgebra ==
    \/ CallTensorMulKeys
    \/ CallSimplify
    \/ CallAlgEq
    \/ CallAlgAdd
    \/ CallAlgMulScalar
    \/ CallAlgMul
    \/ CallAlgMulTensor
    \/ CallAlgRmulTensor
    \/ Return

SpecAlgebra == Init /\ [][NextAlgebra]_vars

Next == NextGroup \/ NextTensor \/ NextAlgebra

Spec == Init /\ [][Next]_vars

(***************************************************************************)
(* The claims.  In a state reached by a call, op names the operation,      *)
(* args holds its operands and res what it produced.                       *)
(***************************************************************************)
IsOp(name) == op = name

\* sigma_j sigma_k = i sigma_l for (j, k, l) a cyclic permutation of (X, Y, Z).
Cyclic == {<<"X", "Y", "Z">>, <<"Y", "Z", "X">>, <<"Z", "X", "Y">>}

\* C1: the product of two phase-1 base elements follows the Pauli table:
\* g*g = I, g*I = I*g = g, X*Y = iZ, Y*Z = iX, Z*X = iY, and two distinct
\* non-identity elements anticommute, g1*g2 = -(g2*g1), the product being
\* plus or minus i times the third non-identity label.
C1_PauliTable ==
    (IsOp("PauliGroupElement.__mul__") /\ args[1].phase = One /\ args[2].phase = One) =>
        LET g1 == args[1].sigma
            g2 == args[2].sigma
        IN  /\ g1 = g2 => res = [phase |-> One, sigma |-> "I"]
            /\ g2 = "I" => res = args[1]
            /\ g1 = "I" => res = args[2]
            /\ \A l \in SIGMA : <<g1, g2, l>> \in Cyclic => res = [phase |-> Imag, sigma |-> l]
            /\ \A l \in SIGMA : <<g2, g1, l>> \in Cyclic => res = [phase |-> MinusImag, sigma |-> l]
            /\ (g1 # g2 /\ g1 # "I" /\ g2 # "I") => res = GroupNeg(GroupMul(args[2], args[1]))

\* Y * X has been computed, and is -i Z.
C1_Witness ==
    /\ IsOp("PauliGroupElement.__mul__")
    /\ args = <<[phase |-> One, sigma |-> "Y"], [phase |-> One, sigma |-> "X"]>>
    /\ res = [phase |-> MinusImag, sigma |-> "Z"]

\* C6 as stated: a group element times any complex scalar, on either side,
\* is a new group element with phase a.phase * s and the same label, also
\* for a scalar that is no fourth root of unity.
C6_ScalarAlwaysSucceeds ==
    (IsOp("PauliGroupElement.__mul__(scalar)") \/ IsOp("PauliGroupElement.__rmul__")) =>
        res = [phase |-> Cmul(args[1].phase, args[2]), sigma |-> args[1].sigma]

\* C6 as amended: a group element times a complex scalar, on either side, is
\* a new group element with phase a.phase * s and the same label when
\* a.phase * s is a fourth root of unity, and fails with the invalid-phase
\* error otherwise: the constructor re-applies the check on this path.
C6_ScalarRevalidated ==
    (IsOp("PauliGroupElement.__mul__(scalar)") \/ IsOp("PauliGroupElement.__rmul__")) =>
        IF Cmul(args[1].phase, args[2]) \in {One, MinusOne, Imag, MinusImag}
        THEN res = [phase |-> Cmul(args[1].phase, args[2]), sigma |-> args[1].sigma]
        ELSE res = Raise("ValueError: Phase must be a fourth root of unity.")

\* 2 * X has been attempted, and raised the invalid-phase error.
C6_Witness ==
    /\ IsOp("PauliGroupElement.__rmul__")
    /\ args = <<[phase |-> One, sigma |-> "X"], Two>>
    /\ IsError(res)

\* The exponent k in 0..3 of a fourth root of unity i^k, and i^k.
UnitLog(u) == CASE u = One -> 0 [] u = Imag -> 1 [] u = MinusOne -> 2 [] u = MinusImag -> 3

UnitPower(k) == CASE k % 4 = 0 -> One [] k % 4 = 1 -> Imag [] k % 4 = 2 -> MinusOne [] k % 4 = 3 -> MinusImag

RECURSIVE SumOfLogs(_, _)
SumOfLogs(tensor, n) == IF n = 0 THEN 0 ELSE SumOfLogs(tensor, n - 1) + UnitLog(tensor[n].phase)

\* t.phase times the product of the factors' phases, the product of the
\* fourth roots being i to the sum of their exponents.
PhaseTimesFactorPhases(t) == Cmul(t.phase, UnitPower(SumOfLogs(t.tensor, Len(t.tensor))))

\* C9: t.factor_phase() has t's labels, phase 1 on every factor and t.phase
\* times the product of all factor phases as its tensor phase (which is
\* t.overall_phase); it compares equal to t, and factor_phase() of it is itself.
C9_FactorPhase ==
    /\ IsOp("PauliTensor.factor_phase") =>
          LET t == args[1]
          IN  /\ Len(res.tensor) = Len(t.tensor)
              /\ \A i \in 1..Len(t.tensor) :
                    res.tensor[i] = [phase |-> One, sigma |-> t.tensor[i].sigma]
              /\ res.phase = PhaseTimesFactorPhases(t)
              /\ res.phase = overall_phase(t)
              /\ TensorEq(res, t)
              /\ factor_phase(res) = res
    /\ IsOp("PauliTensor.overall_phase") => res.value = PhaseTimesFactorPhases(args[1])

\* 2 (iX (x) -Y) has been factored into -2i (X (x) Y).
C9_Witness ==
    /\ IsOp("PauliTensor.factor_phase")
    /\ args = <<[phase |-> Two, tensor |-> <<[phase |-> Imag, sigma |-> "X"],
                                             [phase |-> MinusOne, sigma |-> "Y"]>>]>>
    /\ res = [phase |-> <<0, -2>>, tensor |-> <<[phase |-> One, sigma |-> "X"],
                                                [phase |-> One, sigma |-> "Y"]>>]

\* The product over the positions 1..n of the multiplication table's phase
\* for the labels of a and b at that position.
RECURSIVE TablePhaseProduct(_, _, _)
TablePhaseProduct(a, b, n) ==
    IF n = 0 THEN One
    ELSE Cmul(TablePhaseProduct(a, b, n - 1),
              TIMES_TABLE[<<SigmaIndex(a.tensor[n].sigma), SigmaIndex(b.tensor[n].sigma)>>][1])

\* C2: for tensors a and b of one dim, a * b has phase 1 on every factor, at
\* each position the label of the group product of a's and b's factor there,
\* and the tensor phase overallPhase(a) * overallPhase(b) * the product over the
\* positions of the table phase of the label pair; from_str(s) * from_str(s) is
\* the all-identity tensor with phase 1, and XXX * XYZ equals IZY.
C2_TensorProduct ==
    (IsOp("PauliTensor.__mul__") /\ Len(args[1].tensor) = Len(args[2].tensor)) =>
        LET a == args[1]
            b == args[2]
            n == Len(a.tensor)
        IN  /\ ~IsError(res)
            /\ Len(res.tensor) = n
            /\ \A i \in 1..n :
                  /\ res.tensor[i].phase = One
                  /\ res.tensor[i].sigma = GroupMul(a.tensor[i], b.tensor[i]).sigma
            /\ res.phase = Cmul(Cmul(PhaseTimesFactorPhases(a), PhaseTimesFactorPhases(b)),
                                TablePhaseProduct(a, b, n))
            /\ \A s \in [1..n -> SIGMA] :
                  (a = from_str(s) /\ b = from_str(s)) =>
                      /\ res.phase = One
                      /\ TensorEq(res, from_str([i \in 1..n |-> "I"]))
            /\ (a = from_str(<<"X", "X", "X">>) /\ b = from_str(<<"X", "Y", "Z">>)) =>
                  TensorEq(res, from_str(<<"I", "Z", "Y">>))

\* XXX * XYZ has been computed, and is 1 (I (x) Z (x) Y).
C2_Witness ==
    /\ IsOp("PauliTensor.__mul__")
    /\ args = <<from_str(<<"X", "X", "X">>), from_str(<<"X", "Y", "Z">>)>>
    /\ res = from_str(<<"I", "Z", "Y">>)

\* C7: a product of two tensors of different dim fails with the
\* dimension-mismatch error whichever is on the left, and so does a product of
\* two algebra elements, or of an algebra element and a bare tensor on either
\* side, when some term on the left and some term on the right differ in dim;
\* no value is produced.
C7_DimensionMismatch ==
    /\ (IsOp("PauliTensor.__mul__") /\ Len(args[1].tensor) # Len(args[2].tensor)) =>
          /\ res = Raise("ValueError: Tensors must have the same number of factors.")
          /\ TensorMul(args[2], args[1]) = res
    /\ IsOp("PauliAlgebraElement.__mul__") =>
          ((\E t1 \in DOMAIN args[1].coeffs, t2 \in DOMAIN args[2].coeffs :
                Len(t1.tensor) # Len(t2.tensor))
             => res = Raise("ValueError: Tensors must have the same number of factors."))
    /\ (IsOp("PauliAlgebraElement.__mul__(tensor)") \/ IsOp("PauliAlgebraElement.__rmul__(tensor)")) =>
          ((\E t1 \in DOMAIN args[1].coeffs : Len(t1.tensor) # Len(args[2].tensor))
             => res = Raise("ValueError: Tensors must have the same number of factors."))

\* {III: 1, XX: 1} * {XXX: 1} has been attempted, and raised the error.
C7_Witness ==
    /\ IsOp("PauliAlgebraElement.__mul__")
    /\ DOMAIN args[1].coeffs = {III, XX}
    /\ DOMAIN args[2].coeffs = {XXX}
    /\ res = DimensionMismatchError

\* The operands on which algebra equality neither raises nor rounds: every
\* key's overall phase is a fourth root of unity.
UnitPhased(element) == \A t \in DOMAIN element.coeffs : overall_phase(t) \in FourthRoots

\* C3, on the operands on which algebra equality itself neither raises nor
\* rounds: for a tensor t of the dim of A's terms, A * t == A * {t: 1} and
\* t * A == {t: 1} * A, also when t does not commute with a term of A.
C3_TensorPromotedOnItsSide ==
    ((IsOp("PauliAlgebraElement.__mul__(tensor)") \/ IsOp("PauliAlgebraElement.__rmul__(tensor)"))
        /\ UnitPhased(args[1]) /\ overall_phase(args[2]) \in FourthRoots
        /\ \A t1 \in DOMAIN args[1].coeffs : Len(t1.tensor) = Len(args[2].tensor)) =>
        LET A == args[1]
            singleton == PauliAlgebraElement([t \in {args[2]} |-> One])
        IN  /\ IsOp("PauliAlgebraElement.__mul__(tensor)") =>
                  AlgEq(res, AlgMul(A, singleton)) = [value |-> TRUE]
            /\ IsOp("PauliAlgebraElement.__rmul__(tensor)") =>
                  AlgEq(res, AlgMul(singleton, A)) = [value |-> TRUE]

\* XXX * {ZII: 1} has been computed, and is {ZII * XXX: 1}, which differs from
\* {XXX: 1} * {ZII: 1} = {XXX * ZII: 1} in sign.
C3_Witness ==
    /\ IsOp("PauliAlgebraElement.__rmul__(tensor)")
    /\ args = <<PauliAlgebraElement([t \in {ZII} |-> One]), XXX>>
    /\ res = PauliAlgebraElement([t \in {TensorMul(ZII, XXX)} |-> One])
    /\ AlgEq(res, PauliAlgebraElement([t \in {TensorMul(XXX, ZII)} |-> One])) = [value |-> FALSE]

\* The label sequence of a tensor.
Labels(t) == [i \in 1..Len(t.tensor) |-> t.tensor[i].sigma]

\* C4: when no key of A has overall phase zero, A.simplify() has as keys
\* exactly from_str(labels) for the label sequences of A's keys (tensor phase 1,
\* every factor phase 1), and as coefficient of each the sum of
\* c * overallPhase(t) over the entries (t, c) of A with that label sequence.
C4_SimplifyMerges ==
    (IsOp("PauliAlgebraElement.simplify")
        /\ \A t \in DOMAIN args[1].coeffs : PhaseTimesFactorPhases(t) # Zero) =>
        LET A == args[1]
        IN  /\ ~IsError(res)
            /\ DOMAIN res.coeffs = {from_str(Labels(t)) : t \in DOMAIN A.coeffs}
            /\ \A key \in DOMAIN res.coeffs :
                  res.coeffs[key] =
                      ComplexSum([t \in DOMAIN A.coeffs |->
                                     Cmul(A.coeffs[t], PhaseTimesFactorPhases(t))],
                                 {t \in DOMAIN A.coeffs : Labels(t) = Labels(key)})

\* {49 XXX: 1, XXX: 1} has been simplified, and has kept two entries: 49 * (1/49)
\* is not 1 in binary64, so the two terms are filed under different keys.
C4_Witness ==
    /\ IsOp("PauliAlgebraElement.simplify")
    /\ DOMAIN args[1].coeffs = {TensorRmul(XXX, <<49, 0>>), XXX}
    /\ ~IsError(res)
    /\ Cardinality(DOMAIN res.coeffs) = 2

\* The element C5 describes for A * B: on each label sequence of a product
\* t1 * t2, the sum of c1 * c2 * phase(t1 * t2) over the pairs with those labels.
DistributiveProduct(A, B) ==
    LET pairs == (DOMAIN A.coeffs) \X (DOMAIN B.coeffs)
    IN  PauliAlgebraElement(
          [key \in {from_str(Labels(TensorMul(pr[1], pr[2]))) : pr \in pairs} |->
              ComplexSum([pr \in pairs |->
                             Cmul(Cmul(A.coeffs[pr[1]], B.coeffs[pr[2]]),
                                  TensorMul(pr[1], pr[2]).phase)],
                         {pr \in pairs : Labels(TensorMul(pr[1], pr[2])) = Labels(key)})])

OneDim(A, B) ==
    \A t1 \in DOMAIN A.coeffs \cup DOMAIN B.coeffs, t2 \in DOMAIN A.coeffs \cup DOMAIN B.coeffs :
        Len(t1.tensor) = Len(t2.tensor)

\* C5: for A and B whose terms all share one dim, A * B equals, under algebra
\* equality, the full distributive product of A and B.
C5_Distributes ==
    (IsOp("PauliAlgebraElement.__mul__") /\ OneDim(args[1], args[2])) =>
        /\ ~IsError(res)
        /\ AlgEq(res, DistributiveProduct(args[1], args[2])) = [value |-> TRUE]

\* {0 XXX: 1} * {III: 1} has been computed, and comparing the product with
\* the distributive product raises the division by zero of simplify().
C5_Witness ==
    /\ IsOp("PauliAlgebraElement.__mul__")
    /\ args = <<PauliAlgebraElement([t \in {TensorRmul(XXX, Zero)} |-> One]),
                PauliAlgebraElement([t \in {III} |-> One])>>
    /\ ~IsError(res)
    /\ AlgEq(res, DistributiveProduct(args[1], args[2])) = ZeroDivisionError

\* No two distinct entries of the element have keys equal under tensor equality.
NoEqualKeys(element) ==
    \A key1 \in DOMAIN element.coeffs, key2 \in DOMAIN element.coeffs :
        TensorEq(key1, key2) => key1 = key2

\* C8: no algebra element built by the constructor (the operands), by addition
\* or by multiplication holds two distinct entries whose key tensors are equal
\* under tensor equality.
C8_KeysByNormalForm ==
    (IsOp("PauliAlgebraElement.__add__") \/ IsOp("PauliAlgebraElement.__mul__")) =>
        /\ NoEqualKeys(args[1])
        /\ NoEqualKeys(args[2])
        /\ ~IsError(res) => NoEqualKeys(res)

\* An element holding i XXX both as i (X (x) X (x) X) and as 1 (iX (x) X (x) X),
\* two entries, has been added to another element.
C8_Witness ==
    /\ IsOp("PauliAlgebraElement.__add__")
    /\ DOMAIN args[1].coeffs =
          {TensorRmul(XXX, Imag),
           PauliTensor(One, <<GroupRmul(Base("X"), Imag), Base("X"), Base("X")>>)}
    /\ \E key1 \in DOMAIN res.coeffs, key2 \in DOMAIN res.coeffs :
          key1 # key2 /\ TensorEq(key1, key2)

\* C10: simplify() and algebra equality return normally for every element
\* whose keys are well-formed tensors, whatever their phase: they never fail
\* with a division by zero.
C10_NoZeroDivision ==
    (IsOp("PauliAlgebraElement.simplify") \/ IsOp("PauliAlgebraElement.__eq__")) =>
        ~IsError(res)

\* {0 XXX: 1} has been simplified, and raised the division by zero.
C10_Witness ==
    /\ IsOp("PauliAlgebraElement.simplify")
    /\ DOMAIN args[1].coeffs = {TensorRmul(XXX, Zero)}
    /\ res = ZeroDivisionError

\* What is left of C4 and C5 where simplify() neither raises nor rounds (every
\* key's overall phase a fourth root of unity): both hold there.
C4_SimplifyMergesOnUnitPhases ==
    (IsOp("PauliAlgebraElement.simplify") /\ UnitPhased(args[1])) => C4_SimplifyMerges

C5_DistributesOnUnitPhases ==
    (IsOp("PauliAlgebraElement.__mul__") /\ UnitPhased(args[1]) /\ UnitPhased(args[2])) =>
        C5_Distributes

====
